---- MODULE Spec2Model ----
(***************************************************************************)
(* Model of the ServiceNow number-addition client (src/main.py):           *)
(* ServiceNowClient (credentials, add_numbers), process_query (regex       *)
(* extraction of two numbers) and the Streamlit form in main().            *)
(*                                                                         *)
(* Texts are sequences of one-character strings.  A Python float is the    *)
(* exact decimal n * 10^(-e), kept as the record [n, e] with no trailing   *)
(* zero in the fraction.  A message or displayed text is a sequence of     *)
(* string pieces, read as their concatenation.                             *)
(***************************************************************************)
EXTENDS Integers, Sequences, FiniteSets, TLC

\* Longest query text given to the parsing step.
MaxLen == 5

\* Longest query text typed into the form during a session.
MaxTyped == 3

\* ------------------------------------------------------------------------
\* Characters
\* ------------------------------------------------------------------------
Digits == {"1", "2"}
Signs == {"-", "+"}
Whitespace == {" "}
QueryChars == {"1", "2", ".", "-", " ", "A"}
\* the characters typed during a session
TypedChars == {"1", "2", "-", " "}

DigitVal(c) == IF c = "1" THEN 1 ELSE IF c = "2" THEN 2 ELSE 0

\* str.lower() on one character
LowerChar(c) == IF c = "A" THEN "a" ELSE c

\* str.lower()
Lower(s) == [i \in 1..Len(s) |-> LowerChar(s[i])]

RECURSIVE LStrip(_)
LStrip(s) == IF s # <<>> /\ Head(s) \in Whitespace THEN LStrip(Tail(s)) ELSE s

RECURSIVE RStripWs(_)
RStripWs(s) ==
  IF s # <<>> /\ s[Len(s)] \in Whitespace
  THEN RStripWs(SubSeq(s, 1, Len(s) - 1))
  ELSE s

\* str.strip()
Strip(s) == RStripWs(LStrip(s))

\* str.rstrip('/')
RECURSIVE RStripSlash(_)
RStripSlash(s) ==
  IF s # <<>> /\ s[Len(s)] = "/"
  THEN RStripSlash(SubSeq(s, 1, Len(s) - 1))
  ELSE s

\* ------------------------------------------------------------------------
\* re.findall(r"[-+]?\d*\.?\d+", query)
\* ------------------------------------------------------------------------
\* number of consecutive digits of s from position i on
RECURSIVE DigitRun(_, _)
DigitRun(s, i) ==
  IF i <= Len(s) /\ s[i] \in Digits THEN 1 + DigitRun(s, i + 1) ELSE 0

\* \.?\d+ from position q: the position after the match, 0 when there is none;
\* the dot is taken when digits follow it
DotDigits(s, q) ==
  IF q <= Len(s) /\ s[q] = "." /\ DigitRun(s, q + 1) >= 1
  THEN q + 1 + DigitRun(s, q + 1)
  ELSE IF DigitRun(s, q) >= 1 THEN q + DigitRun(s, q)
  ELSE 0

\* \d*\.?\d+ from position p with \d* taking k digits, then fewer on
\* backtracking; the position after the match, 0 when there is none
RECURSIVE TryDigits(_, _, _)
TryDigits(s, p, k) ==
  IF k < 0 THEN 0
  ELSE IF DotDigits(s, p + k) # 0 THEN DotDigits(s, p + k)
  ELSE TryDigits(s, p, k - 1)

\* the pattern anchored at position i: the sign is taken when it is there,
\* and given up when the rest does not match with it
MatchAt(s, i) ==
  IF i <= Len(s) /\ s[i] \in Signs /\ TryDigits(s, i + 1, DigitRun(s, i + 1)) # 0
  THEN TryDigits(s, i + 1, DigitRun(s, i + 1))
  ELSE TryDigits(s, i, DigitRun(s, i))

\* the non-overlapping matches from position i on, left to right
RECURSIVE FindAllFrom(_, _)
FindAllFrom(s, i) ==
  IF i > Len(s) THEN <<>>
  ELSE IF MatchAt(s, i) = 0 THEN FindAllFrom(s, i + 1)
  ELSE <<SubSeq(s, i, MatchAt(s, i) - 1)>> \o FindAllFrom(s, MatchAt(s, i))

FindAll(s) == FindAllFrom(s, 1)

\* ------------------------------------------------------------------------
\* float(num)
\* ------------------------------------------------------------------------
RECURSIVE Pow10(_)
Pow10(k) == IF k <= 0 THEN 1 ELSE 10 * Pow10(k - 1)

RECURSIVE DigitsVal(_)
DigitsVal(s) ==
  IF s = <<>> THEN 0
  ELSE 10 * DigitsVal(SubSeq(s, 1, Len(s) - 1)) + DigitVal(s[Len(s)])

RECURSIVE Normalize(_)
Normalize(f) ==
  IF f.e > 0 /\ f.n % 10 = 0 THEN Normalize([n |-> f.n \div 10, e |-> f.e - 1])
  ELSE f

AllDigits(s) == \A i \in 1..Len(s) : s[i] \in Digits

\* the position of the first dot, 0 when there is none
DotPos(s) ==
  IF \E i \in 1..Len(s) : s[i] = "."
  THEN CHOOSE i \in 1..Len(s) : s[i] = "." /\ \A j \in 1..(i - 1) : s[j] # "."
  ELSE 0

ValueError == [ok |-> FALSE, v |-> [n |-> 0, e |-> 0]]

\* the float of sign, integer digits ip and fraction digits fp
FloatOfParts(neg, ip, fp) ==
  IF AllDigits(ip) /\ AllDigits(fp) /\ Len(ip) + Len(fp) >= 1
  THEN [ok |-> TRUE,
        v |-> Normalize([n |-> IF neg THEN 0 - DigitsVal(ip \o fp) ELSE DigitsVal(ip \o fp),
                         e |-> Len(fp)])]
  ELSE ValueError

\* the float of an unsigned text whose first dot is at d
FloatOfBody(neg, body, d) ==
  IF d = 0 THEN FloatOfParts(neg, body, <<>>)
  ELSE FloatOfParts(neg, SubSeq(body, 1, d - 1), SubSeq(body, d + 1, Len(body)))

\* float() of a string: [ok |-> FALSE] stands for ValueError
PyFloat(tok) ==
  IF tok # <<>> /\ tok[1] \in Signs
  THEN FloatOfBody(tok[1] = "-", Tail(tok), DotPos(Tail(tok)))
  ELSE FloatOfBody(FALSE, tok, DotPos(tok))

\* float(result_value) of a JSON integer
IntToFloat(k) == [n |-> k, e |-> 0]

\* the e digits of the fraction r / 10^e
RECURSIVE FracDigits(_, _)
FracDigits(r, e) ==
  IF e = 0 THEN <<>>
  ELSE <<ToString(r \div Pow10(e - 1))>> \o FracDigits(r % Pow10(e - 1), e - 1)

\* str() of the float a * 10^(-e), a >= 0
UnsignedStr(a, e) ==
  <<ToString(a \div Pow10(e)), ".">>
  \o (IF e = 0 THEN <<"0">> ELSE FracDigits(a % Pow10(e), e))

\* str() of a float, as the f-string formats it: "20.0", "20.5", "-0.25"
FloatStr(f) ==
  IF f.n < 0 THEN <<"-">> \o UnsignedStr(0 - f.n, f.e) ELSE UnsignedStr(f.n, f.e)

\* ------------------------------------------------------------------------
\* JSON values of a response body, as response.json() returns them.
\* t is the Python type; a float is n * 10^(-e); m holds the items of a dict
\* by key and of a list by index ("0", "1", ...).
\* ------------------------------------------------------------------------
NoItems == [k \in {} |-> 0]

JNull == [t |-> "null", n |-> 0, e |-> 0, s |-> "", m |-> NoItems]
JBool(b) == [t |-> "bool", n |-> IF b THEN 1 ELSE 0, e |-> 0, s |-> "", m |-> NoItems]
JInt(k) == [t |-> "int", n |-> k, e |-> 0, s |-> "", m |-> NoItems]
\* an integer beyond the range of a float, such as 10^400
JBigInt == [t |-> "bigint", n |-> 0, e |-> 0, s |-> "", m |-> NoItems]
JFloat(k, d) == [t |-> "float", n |-> k, e |-> d, s |-> "", m |-> NoItems]
JStr(x) == [t |-> "str", n |-> 0, e |-> 0, s |-> x, m |-> NoItems]
JList(items) == [t |-> "list", n |-> 0, e |-> 0, s |-> "", m |-> items]
JDict(items) == [t |-> "dict", n |-> 0, e |-> 0, s |-> "", m |-> items]

\* isinstance(v, (int, float)): bool is a subclass of int
IsIntOrFloat(v) == v.t \in {"int", "bigint", "float", "bool"}

\* float(v) for such a value; OverflowError when the integer is too large
ToFloat(v) ==
  IF v.t = "bigint" THEN [exc |-> "OverflowError", v |-> [n |-> 0, e |-> 0]]
  ELSE IF v.t = "float" THEN [exc |-> "", v |-> Normalize([n |-> v.n, e |-> v.e])]
  ELSE [exc |-> "", v |-> IntToFloat(v.n)]

\* key in s for two strings: the substring test, on the strings of the model
StrContains(s, key) == s = key \/ <<key, s>> \in {<<"result", "no result">>}

\* key in data
Contains(data, key) ==
  IF data.t = "dict" THEN [exc |-> "", v |-> key \in DOMAIN data.m]
  ELSE IF data.t = "list"
       THEN [exc |-> "", v |-> \E i \in DOMAIN data.m : data.m[i] = JStr(key)]
  ELSE IF data.t = "str" THEN [exc |-> "", v |-> StrContains(data.s, key)]
  ELSE [exc |-> "TypeError", v |-> FALSE]

\* data[key] for a string key
GetItem(data, key) ==
  IF data.t = "dict"
  THEN IF key \in DOMAIN data.m THEN [exc |-> "", v |-> data.m[key]]
       ELSE [exc |-> "KeyError", v |-> JNull]
  ELSE [exc |-> "TypeError", v |-> JNull]

\* data.get(key, default)
DictGet(data, key, default) ==
  IF data.t = "dict"
  THEN [exc |-> "", v |-> IF key \in DOMAIN data.m THEN data.m[key] ELSE default]
  ELSE [exc |-> "AttributeError", v |-> JNull]

\* str(v), as the f-string of the error message formats it
PyStr(v) ==
  IF v.t = "str" THEN v.s
  ELSE IF v.t = "null" THEN "None"
  ELSE IF v.t = "bool" THEN (IF v.n = 1 THEN "True" ELSE "False")
  ELSE IF v.t = "int" THEN ToString(v.n)
  ELSE v.t

\* ------------------------------------------------------------------------
\* AddNumbersResponse and the outcome of requests.post
\* ------------------------------------------------------------------------
None == <<>>
Some(x) == <<x>>

\* str() of an Optional[float]
OptionalStr(r) == IF r = None THEN <<"None">> ELSE FloatStr(r[1])

AddNumbersResponse(success, message, result) ==
  [success |-> success, message |-> message, result |-> result]

HTTP_OK == 200
TIMEOUT == 30
API_PATH == "/api/1756572/addition_of_two_numbers/add"

\* exceptions of requests that derive from requests.RequestException
RequestExceptions == {"Timeout", "ConnectionError"}

Returned(resp) == [kind |-> "return", exc |-> "", resp |-> resp]
Raised(exc) == [kind |-> "raise", exc |-> exc, resp |-> AddNumbersResponse(FALSE, <<>>, None)]

NoOutcome == [kind |-> "none", exc |-> "", status |-> 0, json |-> FALSE, body |-> JNull]
Failure(exc) == [kind |-> "raise", exc |-> exc, status |-> 0, json |-> FALSE, body |-> JNull]
Response(status, body) ==
  [kind |-> "response", exc |-> "", status |-> status, json |-> TRUE, body |-> body]
\* a response whose body is not JSON
NonJsonResponse(status) ==
  [kind |-> "response", exc |-> "", status |-> status, json |-> FALSE, body |-> JNull]

\* ------------------------------------------------------------------------
\* ServiceNowClient
\* ------------------------------------------------------------------------
\* os.getenv of a variable that is not set
UNSET == "<None>"

\* truth value of a credential, as all([...]) tests it
TruthyStr(x) == x \notin {UNSET, ""}
TruthyUrl(u) == u # <<>>

\* the test of the credentials without the password
Configured_IgnoresPassword(url, user, pass) == TruthyUrl(url) /\ TruthyStr(user)

Configured(url, user, pass) == TruthyUrl(url) /\ TruthyStr(user) /\ TruthyStr(pass)

\* self.instance_url after __init__ with SERVICENOW_INSTANCE_URL = env
InitUrl(env) == RStripSlash(env)

ApiUrl(url) == url \o <<API_PATH>>

PostRequest(url, user, pass, num1, num2) ==
  [url |-> ApiUrl(url), num1 |-> num1, num2 |-> num2,
   auth |-> <<user, pass>>, timeout |-> TIMEOUT]

InvalidFormat ==
  Returned(AddNumbersResponse(FALSE, <<"Invalid response format from API">>, None))

\* return of the success, conv being float(result_value)
ReturnValue(conv) ==
  IF conv.exc # "" THEN Raised(conv.exc)
  ELSE Returned(AddNumbersResponse(TRUE, <<"Addition successful">>, Some(conv.v)))

\* the test of the inner value dropped: what is not a number is reported
\* as a success that has no value
HandleValue_NoTypeCheck(result_value) ==
  IF ~IsIntOrFloat(result_value)
  THEN Returned(AddNumbersResponse(TRUE, <<"Addition successful">>, None))
  ELSE ReturnValue(ToFloat(result_value))

\* the inner value
HandleValue(result_value) ==
  IF ~IsIntOrFloat(result_value) THEN InvalidFormat
  ELSE ReturnValue(ToFloat(result_value))

\* the value of the outer key
HandleResultDict(result_dict) ==
  IF result_dict.t = "dict" /\ "result" \in DOMAIN result_dict.m
  THEN HandleValue(result_dict.m["result"])
  ELSE InvalidFormat

\* response_data["result"], got
HandleGot(got) ==
  IF got.exc # "" THEN Raised(got.exc) ELSE HandleResultDict(got.v)

\* "result" in response_data, has
HandleHas(data, has) ==
  IF has.exc # "" THEN Raised(has.exc)
  ELSE IF ~has.v THEN InvalidFormat
  ELSE HandleGot(GetItem(data, "result"))

\* the status-200 branch
HandleOk(data) == HandleHas(data, Contains(data, "result"))

\* .get("message", "Unknown error") done, msg
HandleMessage(msg) ==
  IF msg.exc # "" THEN Raised(msg.exc)
  ELSE Returned(AddNumbersResponse(FALSE, <<"API Error: ", PyStr(msg.v)>>, None))

\* response_data.get("error", {}) done, err
HandleErrorMember(err) ==
  IF err.exc # "" THEN Raised(err.exc)
  ELSE HandleMessage(DictGet(err.v, "message", JStr("Unknown error")))

\* the branch of the other statuses
HandleError(data) == HandleErrorMember(DictGet(data, "error", JDict(NoItems)))

\* the body of the try block, given what requests.post does
AddNumbersTry(o) ==
  IF o.kind # "response" THEN Raised(o.exc)
  ELSE IF ~o.json
       THEN Returned(AddNumbersResponse(FALSE, <<"Invalid JSON response from server">>, None))
  ELSE IF o.status = HTTP_OK THEN HandleOk(o.body)
  ELSE HandleError(o.body)

\* the except clause of requests.RequestException alone
AddNumbersExcept_RequestOnly(r) ==
  IF r.kind = "return" THEN r
  ELSE IF r.exc \in RequestExceptions
       THEN Returned(AddNumbersResponse(FALSE, <<"Request failed: ", r.exc>>, None))
  ELSE r

\* the two except clauses
AddNumbersExcept(r) ==
  IF r.kind = "return" THEN r
  ELSE IF r.exc \in RequestExceptions
       THEN Returned(AddNumbersResponse(FALSE, <<"Request failed: ", r.exc>>, None))
  ELSE Returned(AddNumbersResponse(FALSE, <<"Unexpected error: ", r.exc>>, None))

\* the request sent again after a failure of the transport
AddNumbersPosts_Retry(url, user, pass, num1, num2, o) ==
  IF o.kind = "raise"
  THEN <<PostRequest(url, user, pass, num1, num2), PostRequest(url, user, pass, num1, num2)>>
  ELSE <<PostRequest(url, user, pass, num1, num2)>>

\* the requests the call issues
AddNumbersPosts(url, user, pass, num1, num2, o) ==
  <<PostRequest(url, user, pass, num1, num2)>>

\* add_numbers: what it returns or raises, and the requests it issued
AddNumbers(url, user, pass, num1, num2, o) ==
  IF ~Configured(url, user, pass)
  THEN [out |-> Returned(AddNumbersResponse(FALSE, <<"ServiceNow credentials not configured">>, None)),
        posts |-> <<>>]
  ELSE [out |-> AddNumbersExcept(AddNumbersTry(o)),
        posts |-> AddNumbersPosts(url, user, pass, num1, num2, o)]

\* ------------------------------------------------------------------------
\* process_query
\* ------------------------------------------------------------------------
NotCalled == [called |-> FALSE, args |-> <<>>,
              out |-> Returned(AddNumbersResponse(FALSE, <<>>, None)), posts |-> <<>>]

\* the first two numbers of the query, the others dropped
ExtractNums_FirstTwo(query) ==
  [i \in 1..(IF Len(FindAll(Lower(Strip(query)))) > 2 THEN 2
             ELSE Len(FindAll(Lower(Strip(query))))) |->
     PyFloat(FindAll(Lower(Strip(query)))[i])]

\* the floats of the matches
FloatsOf(found) == [i \in 1..Len(found) |-> PyFloat(found[i])]

\* the numbers extracted from the query
ExtractNums(query) == FloatsOf(FindAll(Lower(Strip(query))))

\* the arguments in the other order
CallArgs_Swapped(nums) == <<nums[2].v, nums[1].v>>

\* the arguments of the call to add_numbers
CallArgs(nums) == <<nums[1].v, nums[2].v>>

\* the message shown in place of the value
ResultText_ShowsMessage(resp) ==
  IF resp.success THEN <<"Result: ">> \o resp.message
  ELSE <<"Error: ">> \o resp.message

\* the text returned after add_numbers has returned resp
ResultText(resp) ==
  IF resp.success THEN <<"Result: ">> \o OptionalStr(resp.result)
  ELSE <<"Error: ">> \o resp.message

Text(t) == [raised |-> FALSE, text |-> t, call |-> NotCalled]

\* add_numbers has been called with args and has done r
AfterCall(args, r) ==
  [raised |-> r.out.kind = "raise",
   text |-> IF r.out.kind = "raise" THEN <<>> ELSE ResultText(r.out.resp),
   call |-> [called |-> TRUE, args |-> args, out |-> r.out, posts |-> r.posts]]

\* result = client.add_numbers(nums[0], nums[1]) and what follows
CallAddNumbers(args, url, user, pass, o) ==
  AfterCall(args, AddNumbers(url, user, pass, args[1], args[2], o))

\* the body of the try block once the numbers are extracted
ProcessNums(nums, url, user, pass, o) ==
  IF \E i \in 1..Len(nums) : ~nums[i].ok
  THEN Text(<<"Error: ", "Found invalid number format in the query">>)
  ELSE IF Len(nums) = 0
  THEN Text(<<"Error: ", "No numbers found in the query. Please provide two numbers.">>)
  ELSE IF Len(nums) = 1
  THEN Text(<<"Error: ", "Only one number found. Please provide exactly two numbers.">>)
  ELSE IF Len(nums) > 2
  THEN Text(<<"Error: ", "More than two numbers found. Please provide exactly two numbers.">>)
  ELSE CallAddNumbers(CallArgs(nums), url, user, pass, o)

\* the body of the try block
ProcessQueryTry(query, url, user, pass, o) ==
  ProcessNums(ExtractNums(query), url, user, pass, o)

\* the except clause
ProcessQueryExcept(t) ==
  IF t.raised
  THEN [raised |-> FALSE,
        text |-> <<"Error: ", "An unexpected error occurred. Please try again with a valid query.">>,
        call |-> t.call]
  ELSE t

ProcessQuery(query, url, user, pass, o) ==
  ProcessQueryExcept(ProcessQueryTry(query, url, user, pass, o))

\* ------------------------------------------------------------------------
\* What the remote endpoint and the network can do with one request
\* ------------------------------------------------------------------------
Key(k, v) == [x \in {k} |-> v]

InnerValues ==
  {JInt(20), JFloat(205, 1), JBool(TRUE), JStr("boom"), JNull, JBigInt, JDict(NoItems)}

Scalars == {JNull, JBool(TRUE), JInt(20), JStr("boom"), JStr("result"), JStr("no result"), JBigInt}

Bodies ==
  Scalars
  \cup {JList(NoItems), JList(Key("0", JStr("result"))), JDict(NoItems), JDict(Key("other", JInt(20)))}
  \cup {JDict(Key("result", v)) : v \in Scalars \cup {JList(NoItems), JDict(Key("other", JInt(20)))}}
  \cup {JDict(Key("result", JDict(Key("result", v)))) : v \in InnerValues}
  \cup {JDict(Key("error", v)) :
          v \in {JNull, JStr("boom"), JDict(NoItems), JDict(Key("message", JStr("boom"))),
                 JDict(Key("message", JInt(20))), JDict(Key("message", JNull))}}

Statuses == {200, 500}

Outcomes ==
  {Failure(x) : x \in RequestExceptions}
  \cup {NonJsonResponse(st) : st \in Statuses}
  \cup {Response(st, b) : st \in Statuses, b \in Bodies}

\* ------------------------------------------------------------------------
\* The session: the client kept in st.session_state, the form, and what the
\* last run of main() displayed and sent.
\* ------------------------------------------------------------------------
VARIABLES instance_url, username, password, user_query, shown, call, outcome

vars == <<instance_url, username, password, user_query, shown, call, outcome>>

Urls == {<<>>, <<"h">>, <<"h", "/">>, <<"h", "/", "/">>}
EnvStrings == {UNSET, "", "admin"}
FormStrings == {"", "admin"}

Nothing == [kind |-> "none", text |-> <<>>]
Warning == [kind |-> "warning", text |-> <<"Please enter a query">>]
Written(text) == [kind |-> "write", text |-> text]
\* the run of main() ended by an exception that nothing caught
Traceback == [kind |-> "exception", text |-> <<>>]

\* first run of main(): ServiceNowClient() reads the environment, the form
\* shows the client's values, no button is pressed
Init ==
  /\ \E env \in Urls : instance_url = InitUrl(env)
  /\ username \in EnvStrings
  /\ password \in EnvStrings
  /\ user_query = <<>>
  /\ shown = Nothing
  /\ call = NotCalled
  /\ outcome = NoOutcome

\* a rerun of main() without the button: nothing is processed
Rerun ==
  /\ shown' = Nothing
  /\ call' = NotCalled
  /\ outcome' = NoOutcome

EditInstanceUrl ==
  \E v \in Urls :
    /\ v # instance_url
    /\ instance_url' = v
    /\ Rerun
    /\ UNCHANGED <<username, password, user_query>>

EditUsername ==
  \E v \in FormStrings :
    /\ v # username
    /\ username' = v
    /\ Rerun
    /\ UNCHANGED <<instance_url, password, user_query>>

EditPassword ==
  \E v \in FormStrings :
    /\ v # password
    /\ password' = v
    /\ Rerun
    /\ UNCHANGED <<instance_url, username, user_query>>

\* the user types one more character into the query field
TypeQuery ==
  \E c \in TypedChars :
    /\ Len(user_query) < MaxTyped
    /\ user_query' = Append(user_query, c)
    /\ Rerun
    /\ UNCHANGED <<instance_url, username, password>>

ClearQuery ==
  /\ user_query # <<>>
  /\ user_query' = <<>>
  /\ Rerun
  /\ UNCHANGED <<instance_url, username, password>>

\* what the network can answer: nothing when no request is sent
Answers(posts, outcomes) == IF posts = <<>> THEN {NoOutcome} ELSE outcomes

\* st.write(result), r being what process_query did
Show(r, o) ==
  /\ shown' = IF r.raised THEN Traceback ELSE Written(r.text)
  /\ call' = r.call
  /\ outcome' = o

\* "Process Query" pressed, the network answering with one of outcomes
Press(outcomes) ==
  /\ UNCHANGED <<instance_url, username, password, user_query>>
  /\ IF user_query # <<>>
     THEN \E o \in Answers(ProcessQuery(user_query, instance_url, username, password,
                                        NoOutcome).call.posts, outcomes) :
            Show(ProcessQuery(user_query, instance_url, username, password, o), o)
     ELSE /\ shown' = Warning
          /\ call' = NotCalled
          /\ outcome' = NoOutcome

Submit == Press(Outcomes)

Next ==
  \/ EditInstanceUrl
  \/ EditUsername
  \/ EditPassword
  \/ TypeQuery
  \/ ClearQuery
  \/ Submit

Spec == Init /\ [][Next]_vars

\* ------------------------------------------------------------------------
\* The parsing step of process_query on every query text up to MaxLen
\* characters: the text is in the query field and the button is pressed.
\* ------------------------------------------------------------------------
RECURSIVE Texts(_)
Texts(k) ==
  IF k = 0 THEN {<<>>}
  ELSE Texts(k - 1) \cup {Append(t, c) : t \in {x \in Texts(k - 1) : Len(x) = k - 1}, c \in QueryChars}

ParseOutcomes ==
  {Failure("Timeout"), Response(HTTP_OK, JDict(Key("result", JDict(Key("result", JInt(20))))))}

InitParse ==
  /\ instance_url \in {<<>>, <<"h">>}
  /\ username = "admin"
  /\ password = "admin"
  /\ user_query \in Texts(MaxLen)
  /\ shown = Nothing
  /\ call = NotCalled
  /\ outcome = NoOutcome

SubmitParse == Press(ParseOutcomes)

NextParse == SubmitParse

SpecParse == InitParse /\ [][NextParse]_vars

\* ------------------------------------------------------------------------
\* Properties
\* ------------------------------------------------------------------------
Pressed == shown.kind # "none"
Posts == call.posts
Resp == call.out.resp

AnyCredentialEmpty ==
  \/ instance_url = <<>>
  \/ username = "" \/ username = UNSET
  \/ password = "" \/ password = UNSET

\* C1: a call to add_numbers made while the instance URL, the username or the
\* password is empty or unset issues no HTTP request and returns success=false.
C1_NoCallWithoutCredentials ==
  (call.called /\ AnyCredentialEmpty) =>
    /\ Posts = <<>>
    /\ call.out.kind = "return"
    /\ Resp.success = FALSE

C1_Witness ==
  /\ call.called
  /\ instance_url # <<>> /\ username = "admin" /\ password = ""
  /\ Resp.message = <<"ServiceNow credentials not configured">>

\* C2: every AddNumbersResponse returned by add_numbers has its numeric value
\* present if and only if success is true.
C2_ValueIffSuccess ==
  (call.called /\ call.out.kind = "return") =>
    ((Resp.result # None) <=> Resp.success)

C2_Witness ==
  /\ call.called /\ Resp.success /\ Resp.result = Some([n |-> 205, e |-> 1])
  /\ outcome.status = HTTP_OK

\* the body is {"result": {"result": <number>}}, a boolean not being a number
WellFormedBody(b) ==
  /\ b.t = "dict" /\ "result" \in DOMAIN b.m
  /\ b.m["result"].t = "dict" /\ "result" \in DOMAIN b.m["result"].m
  /\ b.m["result"].m["result"].t \in {"int", "bigint", "float"}

\* C3: for a status 200 with a JSON body, success=true comes only with a body
\* {"result": {"result": <number>}}, and every other body gives success=false
\* with the message "Invalid response format from API".
C3_OnlyNestedNumberSucceeds ==
  (call.called /\ outcome.kind = "response" /\ outcome.json /\ outcome.status = HTTP_OK) =>
    /\ call.out.kind = "return"
    /\ Resp.success => WellFormedBody(outcome.body)
    /\ ~WellFormedBody(outcome.body) =>
         Resp = AddNumbersResponse(FALSE, <<"Invalid response format from API">>, None)

\* error.message of the body, "Unknown error" when error or message is absent
ErrorMessageOf(b) ==
  IF /\ b.t = "dict" /\ "error" \in DOMAIN b.m
     /\ b.m["error"].t = "dict" /\ "message" \in DOMAIN b.m["error"].m
  THEN PyStr(b.m["error"].m["message"])
  ELSE "Unknown error"

\* C4: for a status other than 200 with a JSON body of any shape, success is
\* false and the message is error.message of the body, or "Unknown error"
\* when error or error.message is absent.
C4_ErrorMessageOrUnknown ==
  (call.called /\ outcome.kind = "response" /\ outcome.json /\ outcome.status # HTTP_OK) =>
    /\ call.out.kind = "return"
    /\ Resp.success = FALSE
    /\ Resp.message = <<"API Error: ", ErrorMessageOf(outcome.body)>>

Matches == FindAll(Lower(Strip(user_query)))

NoNumbersFound == <<"Error: ", "No numbers found in the query. Please provide two numbers.">>
TooFewNumbers == <<"Error: ", "Only one number found. Please provide exactly two numbers.">>
TooManyNumbers == <<"Error: ", "More than two numbers found. Please provide exactly two numbers.">>

\* C5: the parsing step classifies by the number of matches: none gives
\* NoNumbersFound, one TooFewNumbers, more than two TooManyNumbers, and only
\* exactly two proceeds to the call of add_numbers.
C5_ClassifiedByCount ==
  shown.kind = "write" =>
    /\ Len(Matches) = 0 => shown.text = NoNumbersFound /\ ~call.called
    /\ Len(Matches) = 1 => shown.text = TooFewNumbers /\ ~call.called
    /\ Len(Matches) > 2 => shown.text = TooManyNumbers /\ ~call.called
    /\ call.called <=> Len(Matches) = 2
    /\ user_query = <<"1", " ", "2", " ", "1">> => shown.text = TooManyNumbers
    /\ user_query = <<"A", " ", "1", " ", "A">> => shown.text = TooFewNumbers
    /\ user_query = <<"A", " ", "A">> => shown.text = NoNumbersFound

C5_Witness ==
  /\ shown.kind = "write" /\ user_query = <<"1", "-", "2", "-", "1">>
  /\ shown.text = TooManyNumbers

\* a decimal number: optional sign, digits, optional fraction, or a fraction alone
IsDecimal(tok) ==
  LET body == IF tok # <<>> /\ tok[1] \in Signs THEN Tail(tok) ELSE tok
      dots == {i \in 1..Len(body) : body[i] = "."}
  IN  /\ body # <<>>
      /\ \A i \in 1..Len(body) : body[i] \in Digits \cup {"."}
      /\ Cardinality(dots) <= 1
      /\ body[Len(body)] \in Digits

\* the value of a decimal number, read digit by digit from the left
RECURSIVE DecimalFrom(_, _, _, _)
DecimalFrom(tok, i, n, e) ==
  IF i > Len(tok) THEN Normalize([n |-> n, e |-> e])
  ELSE IF tok[i] = "." THEN DecimalFrom(tok, i + 1, n, 0)
  ELSE DecimalFrom(tok, i + 1, 10 * n + DigitVal(tok[i]), IF e >= 0 THEN e + 1 ELSE e)

DecimalValue(tok) ==
  LET neg == tok[1] = "-"
      body == IF tok[1] \in Signs THEN Tail(tok) ELSE tok
      v == DecimalFrom(body, 1, 0, 0 - 1)
  IN  [n |-> IF neg THEN 0 - v.n ELSE v.n, e |-> IF v.e < 0 THEN 0 ELSE v.e]

Separators == {" ", "A"}
OnlySeparators(s, a, b) == \A i \in a..b : s[i] \in Separators

\* the text is two decimal numbers, at a..b and c..d, among separators
TwoNumbersAt(s, a, b, c, d) ==
  /\ a <= b /\ b + 1 < c /\ c <= d
  /\ OnlySeparators(s, 1, a - 1)
  /\ OnlySeparators(s, b + 1, c - 1)
  /\ OnlySeparators(s, d + 1, Len(s))
  /\ IsDecimal(SubSeq(s, a, b))
  /\ IsDecimal(SubSeq(s, c, d))

\* C6: for a text holding exactly two decimal numbers (optional sign, optional
\* fraction) set apart by other characters, add_numbers is called with the
\* value of the first as num1 and the value of the second as num2.
C6_OperandsInTextOrder ==
  shown.kind = "write" =>
    \A a, b, c, d \in 1..Len(user_query) :
      TwoNumbersAt(user_query, a, b, c, d) =>
        /\ call.called
        /\ call.args = <<DecimalValue(SubSeq(user_query, a, b)),
                         DecimalValue(SubSeq(user_query, c, d))>>
        /\ Posts # <<>> =>
             /\ Posts[1].num1 = DecimalValue(SubSeq(user_query, a, b))
             /\ Posts[1].num2 = DecimalValue(SubSeq(user_query, c, d))

C6_Witness ==
  /\ shown.kind = "write" /\ user_query = <<"-", "2", " ", ".", "1">>
  /\ Posts # <<>>
  /\ Posts[1].num1 = [n |-> 0 - 2, e |-> 0] /\ Posts[1].num2 = [n |-> 1, e |-> 1]

\* C7: add_numbers returns, with success=false on a timeout, a connection
\* failure or a body that is not JSON, and never raises; process_query returns
\* a text starting with "Result: " or "Error: "; and no run of the form ends
\* by an exception, so that the form is there for the next query.
C7_NoFailureEscapes ==
  /\ call.called =>
       /\ call.out.kind = "return"
       /\ (outcome.kind = "raise" \/ ~outcome.json) => Resp.success = FALSE
  /\ shown.kind # "exception"
  /\ shown.kind = "write" => shown.text[1] \in {"Result: ", "Error: "}

C7_Witness ==
  /\ call.called /\ outcome = Response(HTTP_OK, JNull)
  /\ Resp.message = <<"Unexpected error: ", "TypeError">>
  /\ shown.text = <<"Error: ", "Unexpected error: ", "TypeError">>

\* C8: when two numbers are extracted, the displayed text is "Result: " and
\* the float returned by add_numbers when it succeeds ("Result: 20.0" for the
\* body {"result":{"result":20}}), and "Error: " and its message otherwise.
C8_DisplayVerbatim ==
  call.called =>
    /\ call.out.kind = "return"
    /\ Resp.success => shown.text = <<"Result: ">> \o FloatStr(Resp.result[1])
    /\ ~Resp.success => shown.text = <<"Error: ">> \o Resp.message
    /\ outcome = Response(HTTP_OK, JDict(Key("result", JDict(Key("result", JInt(20)))))) =>
         shown.text = <<"Result: ", "20", ".", "0">>
    /\ outcome = Response(HTTP_OK, JDict(Key("result", JDict(Key("result", JFloat(205, 1)))))) =>
         shown.text = <<"Result: ", "20", ".", "5">>

C8_Witness ==
  /\ call.called /\ user_query = <<"1", " ", "2">>
  /\ outcome = Response(HTTP_OK, JDict(Key("result", JDict(Key("result", JInt(20))))))
  /\ shown = Written(<<"Result: ", "20", ".", "0">>)

\* C9: the URL posted to is the configured base URL with all trailing slashes
\* stripped, followed by /api/1756572/addition_of_two_numbers/add.
C9_TrailingSlashesStripped ==
  Posts # <<>> =>
    Posts[1].url = RStripSlash(instance_url) \o <<"/api/1756572/addition_of_two_numbers/add">>

\* C10: a press of the button issues at most one POST: none when the query is
\* empty, when the numbers found are not exactly two or when a credential is
\* empty, and exactly one otherwise, also when the POST fails or times out.
C10_AtMostOnePost ==
  /\ Len(Posts) <= 1
  /\ Pressed =>
       Len(Posts) = IF user_query = <<>> \/ Len(Matches) # 2 \/ AnyCredentialEmpty
                    THEN 0 ELSE 1

C10_Witness ==
  /\ Pressed /\ outcome = Failure("Timeout") /\ Len(Posts) = 1
  /\ shown.text = <<"Error: ", "Request failed: ", "Timeout">>

====
